---- MODULE Spec2Model ----
(***************************************************************************)
(* Model of flavio/statistics/probability.py: the probability              *)
(* distribution classes, their constructors, get_random, logpdf, and the   *)
(* combination routines convolve_distributions, _convolve_gaussians and    *)
(* _convolve_numerical.                                                    *)
(*                                                                         *)
(* Numbers are integers in one common unit.  A central value carries its   *)
(* Python type, because convolve_distributions tests isinstance(.., float) *)
(* and because == on an ndarray is not a bool.  The density table of a     *)
(* NumericalDistribution is not kept: only its central value, its support  *)
(* and the number of grid points are.                                      *)
(***************************************************************************)
EXTENDS Integers, Sequences, FiniteSets, TLC

VARIABLES objs, call, result, groups

vars == <<objs, call, result, groups>>

(***************************************************************************)
(* Bounds of the model.                                                    *)
(***************************************************************************)
\* number of live distribution instances
MaxObjs == 2
\* length of the list handed to a combination routine
MaxArgs == 3
\* length of the list handed to _convolve_gaussians or _convolve_numerical
\* when it is called on its own
MaxGroup == 2
\* largest size asked of get_random, longest array handed to logpdf
MaxSize == 2

\* Python's None; an optional value v that is given is <<v>>
None == <<>>

(***************************************************************************)
(* Values the callers construct distributions from.                        *)
(***************************************************************************)
Float(v) == [v |-> v, type |-> "float"]
PyInt(v) == [v |-> v, type |-> "int"]
NdArray(v) == [v |-> v, type |-> "ndarray"]

CentralValues == {Float(0), Float(1)}
Limits == {25}
\* confidence levels in per mille
ConfidenceLevels == {-50, 683, 950, 1050}
Grids == {<<-1, 0, 1>>, <<1, 0, -1>>}
Weights == {<<1, 2, 1>>, <<0, 1, 3>>}
NumCentrals == {None, <<0>>, <<5>>}
\* symmetric 2x2 covariance matrices <<a, b, d>> = [[a, b], [b, d]]
Covariances == {<<1, 2, 1>>, <<2, 1, 2>>}
Points == {-7, 0}

(***************************************************************************)
(* Outcomes of a call: a returned value or a raised exception.             *)
(***************************************************************************)
Raise(e, n) == [status |-> "raise", error |-> e, constructed |-> n]

\* an existing instance handed back: the very object at heap index id
ReturnRef(id, d) == [status |-> "return", isnew |-> FALSE, id |-> id,
                     value |-> d, constructed |-> 0]

\* a newly constructed instance; n instances were constructed on the way
ReturnNew(d, n) == [status |-> "return", isnew |-> TRUE, id |-> 0,
                    value |-> d, constructed |-> n]

(***************************************************************************)
(* Constructors.  Each yields the new object, or the exception raised.     *)
(***************************************************************************)
UniformDistribution(central_value, half_range) ==
    ReturnNew([kind |-> "Uniform", central_value |-> central_value,
               support |-> <<central_value.v - half_range,
                             central_value.v + half_range>>,
               half_range |-> half_range], 1)

DeltaDistribution(central_value) ==
    ReturnNew([kind |-> "Delta", central_value |-> central_value,
               support |-> <<central_value.v, central_value.v>>], 1)

NormalDistribution(central_value, standard_deviation) ==
    ReturnNew([kind |-> "Normal", central_value |-> central_value,
               support |-> <<central_value.v - 6 * standard_deviation,
                             central_value.v + 6 * standard_deviation>>,
               standard_deviation |-> standard_deviation], 1)

AsymmetricNormalDistribution(central_value, right_deviation, left_deviation) ==
    IF right_deviation < 0 \/ left_deviation < 0
    THEN Raise("ValueError", 0)
    ELSE ReturnNew([kind |-> "AsymmetricNormal",
                    central_value |-> central_value,
                    support |-> <<central_value.v - 6 * left_deviation,
                                  central_value.v + 6 * right_deviation>>,
                    right_deviation |-> right_deviation,
                    left_deviation |-> left_deviation], 1)

Min(a, b) == IF a <= b THEN a ELSE b
Max(a, b) == IF a >= b THEN a ELSE b

\* sorted((a, b))
Sorted2(a, b) == <<Min(a, b), Max(a, b)>>

HalfNormalDistribution(central_value, standard_deviation) ==
    ReturnNew([kind |-> "HalfNormal", central_value |-> central_value,
               support |-> Sorted2(central_value.v,
                                   central_value.v + 6 * standard_deviation),
               standard_deviation |-> standard_deviation], 1)

\* scipy.stats.norm.ppf(0.5 + confidence_level/2.) as a fraction num/den,
\* to two decimals: ppf(0.8415) = 1.00, ppf(0.975) = 1.96 = 49/25
norm_ppf(confidence_level) ==
    IF confidence_level = 683 THEN [num |-> 1, den |-> 1]
    ELSE [num |-> 49, den |-> 25]

get_standard_deviation(limit, confidence_level) ==
    (limit * norm_ppf(confidence_level).num) \div norm_ppf(confidence_level).den

GaussianUpperLimit(limit, confidence_level) ==
    IF confidence_level > 1000 \/ confidence_level < 0
    THEN Raise("ValueError", 0)
    ELSE LET sd == get_standard_deviation(limit, confidence_level)
         IN  ReturnNew([kind |-> "GaussianUpperLimit",
                        central_value |-> PyInt(0),
                        support |-> Sorted2(0, 0 + 6 * sd),
                        standard_deviation |-> sd,
                        limit |-> limit,
                        confidence_level |-> confidence_level], 1)

\* np.argmax(y): the first index of the largest entry
ArgMax(y) ==
    CHOOSE i \in 1..Len(y) :
        /\ \A j \in 1..Len(y) : y[j] <= y[i]
        /\ \A j \in 1..(i - 1) : y[j] < y[i]

\* the part of NumericalDistribution.__init__ that decides the outcome, on
\* the end points x0 = x[0], x1 = x[-1] of a grid of n points
NumericalFromEnds(x0, x1, n, central_value) ==
    IF x0 <= central_value.v /\ central_value.v <= x1
    THEN ReturnNew([kind |-> "Numerical", central_value |-> central_value,
                    support |-> <<x0, x1>>, n |-> n], 1)
    ELSE Raise("ValueError", 0)

NumericalDistribution(x, y, central_value) ==
    IF central_value # None
    THEN NumericalFromEnds(x[1], x[Len(x)], Len(x), Float(central_value[1]))
    ELSE ReturnNew([kind |-> "Numerical",
                    central_value |-> Float(x[ArgMax(y)]),
                    support |-> <<x[1], x[Len(x)]>>, n |-> Len(x)], 1)

\* np.all(np.linalg.eigvals(covariance) > 0) for [[a, b], [b, d]]: both
\* eigenvalues of a symmetric 2x2 matrix are positive exactly when its
\* trace and its determinant are
PositiveDefinite(cov) ==
    /\ cov[1] + cov[3] > 0
    /\ cov[1] * cov[3] - cov[2] * cov[2] > 0

MultivariateNormalDistribution(central_value, covariance) ==
    IF PositiveDefinite(covariance)
    THEN ReturnNew([kind |-> "MultivariateNormal",
                    central_value |-> central_value,
                    support |-> None,
                    covariance |-> covariance], 1)
    ELSE Raise("AssertionError", 0)

(***************************************************************************)
(* get_random.  size is None or <<n>>; side is the outcome of the uniform  *)
(* draw r > a of AsymmetricNormalDistribution.get_random.  Only the shape  *)
(* of what is returned is kept, not the numbers drawn.                     *)
(***************************************************************************)
Scalar == [status |-> "return", shape |-> "scalar", len |-> 1, constructed |-> 0]

ArrayOf(n) == [status |-> "return", shape |-> "array", len |-> n, constructed |-> 0]

\* what numpy's samplers and c * np.ones(size) give for a size argument
Sized(size) == IF size = None THEN Scalar ELSE ArrayOf(size[1])

AsymmetricNormal_get_random(d, size, side) ==
    [status |-> "return", shape |-> "scalar", len |-> 1, constructed |-> 0,
     side |-> side]

Normal_get_random(d, size) ==
    IF d.standard_deviation < 0 THEN Raise("ValueError", 0) ELSE Sized(size)

get_random(d, size, side) ==
    CASE d.kind = "Normal" -> Normal_get_random(d, size)
      [] d.kind = "AsymmetricNormal" -> AsymmetricNormal_get_random(d, size, side)
      [] OTHER -> Sized(size)

(***************************************************************************)
(* logpdf.  x is [shape, vals]: a scalar (one value) or an ndarray.  A     *)
(* log-density is kept as one of "-inf", "0.0", "finite", "nan", "interp"  *)
(* (a value read off the interpolation table).                             *)
(***************************************************************************)
ScalarX(v) == [shape |-> "scalar", vals |-> <<v>>]
ArrayX(vs) == [shape |-> "array", vals |-> vs]

Uniform_logpdf(d, x) ==
    IF x < d.support[1] \/ x >= d.support[2] THEN "-inf" ELSE "finite"

HalfNormal_logpdf(d, x) ==
    LET sign == IF d.standard_deviation > 0 THEN 1
                ELSE IF d.standard_deviation < 0 THEN -1 ELSE 0
    IN  IF sign * (x - d.central_value.v) < 0 THEN "-inf" ELSE "finite"

Normal_logpdf(d, x) == IF d.standard_deviation > 0 THEN "finite" ELSE "nan"

Numerical_logpdf(d, x) ==
    IF x < Min(d.support[1], d.support[2]) \/ x > Max(d.support[1], d.support[2])
    THEN "-inf" ELSE "interp"

\* the log-density of one point, for the variants that evaluate pointwise
logpdf1(d, x) ==
    CASE d.kind = "Uniform" -> Uniform_logpdf(d, x)
      [] d.kind = "Normal" -> Normal_logpdf(d, x)
      [] d.kind = "AsymmetricNormal" -> "finite"
      [] d.kind \in {"HalfNormal", "GaussianUpperLimit"} -> HalfNormal_logpdf(d, x)
      [] d.kind = "Numerical" -> Numerical_logpdf(d, x)

Returned(shape, vals) ==
    [status |-> "return", shape |-> shape, vals |-> vals, constructed |-> 0]

\* `if x == self.central_value` on an ndarray of n elements: the truth value
\* of an array with more than one element is ambiguous
DeltaTestRaises(shape, n) == shape = "array" /\ n > 1

Delta_logpdf(d, x) ==
    IF DeltaTestRaises(x.shape, Len(x.vals))
    THEN Raise("ValueError", 0)
    ELSE Returned("scalar",
                  <<IF x.vals[1] = d.central_value.v THEN "0.0" ELSE "-inf">>)

logpdf(d, x) ==
    IF d.kind = "Delta"
    THEN Delta_logpdf(d, x)
    ELSE Returned(x.shape, [i \in 1..Len(x.vals) |-> logpdf1(d, x.vals[i])])

(***************************************************************************)
(* NumericalDistribution.from_pd                                           *)
(***************************************************************************)
nsteps == 1000

from_pd(pd) ==
    IF pd.support = None
    THEN Raise("TypeError", 0)
    ELSE IF pd.kind = "Delta" /\ DeltaTestRaises("array", nsteps)
    THEN Raise("ValueError", 0)
    ELSE NumericalFromEnds(pd.support[1], pd.support[2], nsteps,
                           pd.central_value)

(***************************************************************************)
(* The combination routines.  A list of distributions is a sequence of     *)
(* object records; convolve_distributions gets the heap and a sequence of  *)
(* heap indices, since it groups instances by identity.                    *)
(***************************************************************************)
isinstance(p, cls) ==
    \/ p.kind = cls
    \/ cls = "HalfNormal" /\ p.kind = "GaussianUpperLimit"

\* all(p.central_value == central_value for p in ps), from position i on:
\* "True", "False", or "ValueError" when the comparison gives an ndarray,
\* which has no truth value
RECURSIVE AllSameFrom(_, _, _)
AllSameFrom(ps, central_value, i) ==
    IF i > Len(ps) THEN "True"
    ELSE IF ps[i].central_value.type = "ndarray" THEN "ValueError"
    ELSE IF ps[i].central_value.v # central_value.v THEN "False"
    ELSE AllSameFrom(ps, central_value, i + 1)

AllSame(ps, central_value) == AllSameFrom(ps, central_value, 1)

\* the sum of the sigmas, not of their squares
RECURSIVE SumPlain(_)
SumPlain(sigmas) ==
    IF sigmas = <<>> THEN 0
    ELSE (IF Head(sigmas) < 0 THEN -Head(sigmas) ELSE Head(sigmas))
             + SumPlain(Tail(sigmas))

\* np.sum(sigmas**2)
RECURSIVE SumSquares(_)
SumSquares(sigmas) ==
    IF sigmas = <<>> THEN 0
    ELSE Head(sigmas) * Head(sigmas) + SumSquares(Tail(sigmas))

\* math.sqrt, rounded down to the unit
sqrt(n) == CHOOSE r \in 0..n : r * r <= n /\ n < (r + 1) * (r + 1)

convolve_gaussians(ps) ==
    IF \E i \in 1..Len(ps) : ~isinstance(ps[i], "Normal")
    THEN Raise("AssertionError", 0)
    ELSE IF ps = <<>>
    THEN Raise("IndexError", 0)
    ELSE IF AllSame(ps, ps[1].central_value) # "True"
    THEN Raise("AssertionError", 0)
    ELSE NormalDistribution(
             ps[1].central_value,
             sqrt(SumSquares([i \in 1..Len(ps) |-> ps[i].standard_deviation])))

convolve_nsteps == 1000

MinOf(S) == CHOOSE m \in S : \A n \in S : m <= n
MaxOf(S) == CHOOSE m \in S : \A n \in S : m >= n

convolve_numerical(ps) ==
    IF \E i \in 1..Len(ps) : ~isinstance(ps[i], "Numerical")
    THEN Raise("AssertionError", 0)
    ELSE IF ps = <<>>
    THEN Raise("IndexError", 0)
    ELSE IF AllSame(ps, ps[1].central_value) # "True"
    THEN Raise("AssertionError", 0)
    ELSE NumericalFromEnds(MinOf({ps[i].support[1] : i \in 1..Len(ps)}),
                           MaxOf({ps[i].support[2] : i \in 1..Len(ps)}),
                           convolve_nsteps, ps[1].central_value)

\* [p for p in probability_distributions if isinstance(p, cls)], as indices
RECURSIVE Instances(_, _, _)
Instances(heap, args, cls) ==
    IF args = <<>> THEN <<>>
    ELSE IF isinstance(heap[Head(args)], cls)
    THEN <<Head(args)>> \o Instances(heap, Tail(args), cls)
    ELSE Instances(heap, Tail(args), cls)

Range(s) == {s[i] : i \in 1..Len(s)}

\* set(probability_distributions) - set(gaussians) - set(deltas); instances
\* hash and compare by id
OthersSet(heap, args) ==
    (Range(args) \ Range(Instances(heap, args, "Normal")))
        \ Range(Instances(heap, args, "Delta"))

\* the orders list(set) can give
Enumerations(S) ==
    {s \in [1..Cardinality(S) -> S] : \A x \in S : \E i \in DOMAIN s : s[i] = x}

\* [NumericalDistribution.from_pd(p) for p in to_be_combined]: the index of
\* the first p whose conversion raises, or 0
FirstFailure(to_be_combined) ==
    IF \E i \in 1..Len(to_be_combined) : from_pd(to_be_combined[i]).status = "raise"
    THEN CHOOSE i \in 1..Len(to_be_combined) :
             /\ from_pd(to_be_combined[i]).status = "raise"
             /\ \A j \in 1..(i - 1) : from_pd(to_be_combined[j]).status = "return"
    ELSE 0

\* the branch of convolve_distributions that combines numerically; gaussian
\* is the combined normal distribution, already constructed
CombineOthers(others, gaussian) ==
    LET to_be_combined == others \o <<gaussian>>
        bad == FirstFailure(to_be_combined)
        numerical == [i \in 1..Len(to_be_combined) |->
                          from_pd(to_be_combined[i]).value]
        r == convolve_numerical(numerical)
    IN  IF bad # 0
        THEN Raise(from_pd(to_be_combined[bad]).error, bad)
        ELSE IF r.status = "raise"
        THEN Raise(r.error, 1 + Len(to_be_combined))
        ELSE ReturnNew(r.value, 2 + Len(to_be_combined))

\* the early return of line 223 left out
NeverJustOne(args) == FALSE

\* len(probability_distributions) == 1
JustOne(args) == Len(args) = 1

\* the assertion of line 227 left out
NotCompared(ps) == "True"

\* the assertion that every input has the central value of the first
SameCentralValue(ps) == AllSame(ps, ps[1].central_value)

\* others is list(set(..) - ..) as indices, in the order the set gave them
convolve_distributions(heap, args, others) ==
    LET ps == [i \in 1..Len(args) |-> heap[args[i]]]
        gaussians == [i \in 1..Len(Instances(heap, args, "Normal")) |->
                          heap[Instances(heap, args, "Normal")[i]]]
        gaussian == convolve_gaussians(gaussians)
    IN  IF JustOne(args)
        THEN ReturnRef(args[1], heap[args[1]])
        ELSE IF args = <<>>
        THEN Raise("IndexError", 0)
        ELSE IF ps[1].central_value.type # "float"
        THEN Raise("AssertionError", 0)
        ELSE IF SameCentralValue(ps) = "False"
        THEN Raise("AssertionError", 0)
        ELSE IF SameCentralValue(ps) = "ValueError"
        THEN Raise("ValueError", 0)
        ELSE IF gaussian.status = "raise"
        THEN gaussian
        ELSE IF others = <<>>
        THEN gaussian
        ELSE CombineOthers([i \in 1..Len(others) |-> heap[others[i]]],
                           gaussian.value)

\* the call gets past the assertions of lines 226-228
PastAssertions(heap, args) ==
    /\ ~JustOne(args)
    /\ args # <<>>
    /\ heap[args[1]].central_value.type = "float"
    /\ SameCentralValue([i \in 1..Len(args) |-> heap[args[i]]]) = "True"

NoGroups == [gaussians |-> <<>>, deltas |-> <<>>, others |-> <<>>]

\* the lists the grouping step of convolve_distributions has built when the
\* call ends, as indices: gaussians at line 230, deltas and others after
\* _convolve_gaussians returned
Groups(heap, args, others) ==
    IF ~PastAssertions(heap, args)
    THEN NoGroups
    ELSE IF convolve_gaussians([i \in 1..Len(Instances(heap, args, "Normal")) |->
                                   heap[Instances(heap, args, "Normal")[i]]]).status = "raise"
    THEN [gaussians |-> Instances(heap, args, "Normal"),
          deltas |-> <<>>, others |-> <<>>]
    ELSE [gaussians |-> Instances(heap, args, "Normal"),
          deltas |-> Instances(heap, args, "Delta"),
          others |-> others]

(***************************************************************************)
(* The state machine: objs is the heap of live instances (an instance is   *)
(* its index), call the last call made, result its outcome, groups the     *)
(* lists the last convolve_distributions built.  The program is           *)
(* single-threaded: a call is made when no call is pending, and the caller *)
(* takes its outcome before it makes the next one.                         *)
(***************************************************************************)
Idle == call.op = "none"

UniformParams == {<<Float(0), 2>>, <<Float(1), 2>>, <<Float(0), -1>>}
NormalParams == {<<Float(0), 3>>, <<Float(0), 4>>, <<Float(1), 3>>, <<Float(0), -3>>}
AsymParams == {<<Float(0), 1, 2>>, <<Float(0), -1, 2>>, <<Float(0), 1, -1>>}
HalfParams == {<<Float(0), -2>>}

Init ==
    /\ objs = <<>>
    /\ call = [op |-> "none", args |-> <<>>]
    /\ result = Raise("none", 0)
    /\ groups = NoGroups

\* a constructor call: the instance joins the heap unless the call raised
Construct(op, args, r) ==
    /\ Len(objs) < MaxObjs
    /\ objs' = IF r.status = "return" THEN Append(objs, r.value) ELSE objs
    /\ call' = [op |-> op, args |-> args]
    /\ result' = r
    /\ groups' = NoGroups

NewUniform ==
    /\ Idle
    /\ \E p \in UniformParams :
           Construct("UniformDistribution", p, UniformDistribution(p[1], p[2]))

NewDelta ==
    /\ Idle
    /\ \E c \in CentralValues :
           Construct("DeltaDistribution", <<c>>, DeltaDistribution(c))

NewNormal ==
    /\ Idle
    /\ \E p \in NormalParams :
           Construct("NormalDistribution", p, NormalDistribution(p[1], p[2]))

NewAsymmetricNormal ==
    /\ Idle
    /\ \E p \in AsymParams :
           Construct("AsymmetricNormalDistribution", p,
                     AsymmetricNormalDistribution(p[1], p[2], p[3]))

NewHalfNormal ==
    /\ Idle
    /\ \E p \in HalfParams :
           Construct("HalfNormalDistribution", p,
                     HalfNormalDistribution(p[1], p[2]))

NewGaussianUpperLimit ==
    /\ Idle
    /\ \E limit \in Limits, confidence_level \in ConfidenceLevels :
           Construct("GaussianUpperLimit", <<limit, confidence_level>>,
                     GaussianUpperLimit(limit, confidence_level))

NewNumerical ==
    /\ Idle
    /\ \E x \in Grids, y \in Weights, c \in NumCentrals :
           Construct("NumericalDistribution", <<x, y, c>>,
                     NumericalDistribution(x, y, c))

NewMultivariateNormal ==
    /\ Idle
    /\ \E cov \in Covariances :
           Construct("MultivariateNormalDistribution", <<cov>>,
                     MultivariateNormalDistribution(NdArray(<<0, 0>>), cov))

Ids == 1..Len(objs)

Univariate == {i \in Ids : objs[i].kind # "MultivariateNormal"}

ArgLists == UNION {[1..n -> Ids] : n \in 1..MaxArgs}

GroupLists == UNION {[1..n -> Ids] : n \in 1..MaxGroup}

Sizes == {None} \cup {<<n>> : n \in 0..MaxSize}

Inputs == {ScalarX(v) : v \in Points}
              \cup {ArrayX(vs) : vs \in UNION {[1..n -> Points] : n \in 1..MaxSize}}

Called(op, args, r) ==
    /\ call' = [op |-> op, args |-> args]
    /\ result' = r
    /\ UNCHANGED objs

GetRandom ==
    /\ Idle
    /\ \E i \in Univariate, size \in Sizes, side \in {"left", "right"} :
           /\ Called("get_random", <<i, size>>, get_random(objs[i], size, side))
           /\ groups' = NoGroups

LogPdf ==
    /\ Idle
    /\ \E i \in Univariate, x \in Inputs :
           /\ Called("logpdf", <<i, x>>, logpdf(objs[i], x))
           /\ groups' = NoGroups

FromPd ==
    /\ Idle
    /\ \E i \in Ids :
           /\ Called("from_pd", <<i>>, from_pd(objs[i]))
           /\ groups' = NoGroups

ConvolveDistributions ==
    /\ Idle
    /\ \E args \in ArgLists :
           \E others \in Enumerations(OthersSet(objs, args)) :
               /\ Called("convolve_distributions", args,
                         convolve_distributions(objs, args, others))
               /\ groups' = Groups(objs, args, others)

ConvolveGaussians ==
    /\ Idle
    /\ \E args \in GroupLists :
           /\ Called("_convolve_gaussians", args,
                     convolve_gaussians([i \in 1..Len(args) |-> objs[args[i]]]))
           /\ groups' = NoGroups

ConvolveNumerical ==
    /\ Idle
    /\ \E args \in GroupLists :
           /\ Called("_convolve_numerical", args,
                     convolve_numerical([i \in 1..Len(args) |-> objs[args[i]]]))
           /\ groups' = NoGroups

\* the caller has taken the outcome of the last call
Resume ==
    /\ ~Idle
    /\ call' = [op |-> "none", args |-> <<>>]
    /\ result' = Raise("none", 0)
    /\ groups' = NoGroups
    /\ UNCHANGED objs

Next ==
    \/ NewUniform
    \/ NewDelta
    \/ NewNormal
    \/ NewAsymmetricNormal
    \/ NewHalfNormal
    \/ NewGaussianUpperLimit
    \/ NewNumerical
    \/ NewMultivariateNormal
    \/ GetRandom
    \/ LogPdf
    \/ FromPd
    \/ ConvolveDistributions
    \/ ConvolveGaussians
    \/ ConvolveNumerical
    \/ Resume

Spec == Init /\ [][Next]_vars

(***************************************************************************)
(* Properties.                                                             *)
(***************************************************************************)
Convolving == call.op = "convolve_distributions"

\* the i-th distribution of the list handed to the last combination call
Arg(i) == objs[call.args[i]]

ArgIdx == 1..Len(call.args)

UnivariateKinds == {"Uniform", "Delta", "Normal", "AsymmetricNormal",
                    "HalfNormal", "GaussianUpperLimit", "Numerical"}

\* a univariate distribution whose parameters the specification admits
WellFormed(d) ==
    /\ d.kind \in UnivariateKinds
    /\ d.kind = "Uniform" => d.half_range >= 0
    /\ d.kind = "Normal" => d.standard_deviation > 0
    /\ d.kind = "Numerical" => d.support[1] < d.support[2]

\* Python's != on two central values
Differs(a, b) ==
    IF a.type = "ndarray" /\ b.type = "ndarray" THEN a.v # b.v
    ELSE IF a.type = "ndarray" \/ b.type = "ndarray" THEN TRUE
    ELSE a.v # b.v

\* C1: convolve_distributions, given a non-empty list of well-formed
\* univariate distributions that share one scalar central value, returns a
\* distribution with that central value (in particular when the list has two
\* or more members and none is Normal).
C1_ConvolveReturnsSharedCentral ==
    (/\ Convolving
     /\ \A i \in ArgIdx : WellFormed(Arg(i))
     /\ \A i \in ArgIdx : ~Differs(Arg(i).central_value, Arg(1).central_value))
    => /\ result.status = "return"
       /\ result.value.central_value.v = Arg(1).central_value.v

\* the sum of the squares of the standard deviations of the first n inputs
RECURSIVE SquaresUpTo(_)
SquaresUpTo(n) ==
    IF n = 0 THEN 0
    ELSE Arg(n).standard_deviation * Arg(n).standard_deviation + SquaresUpTo(n - 1)

AllNormalCall ==
    /\ Convolving
    /\ Len(call.args) >= 2
    /\ \A i \in ArgIdx : Arg(i).kind = "Normal"
    /\ \A i \in ArgIdx : Arg(i).central_value = Arg(1).central_value

\* C2: when all of two or more inputs are Normal with one central value, the
\* result is a Normal with that central value whose standard deviation is the
\* square root (to the unit) of the sum of the squares of the inputs'
\* standard deviations, every occurrence counted; 3 and 4 give 5.
C2_GaussiansCombineInQuadrature ==
    AllNormalCall =>
        /\ result.status = "return"
        /\ result.value.kind = "Normal"
        /\ result.value.central_value = Arg(1).central_value
        /\ result.value.standard_deviation >= 0
        /\ result.value.standard_deviation * result.value.standard_deviation
               <= SquaresUpTo(Len(call.args))
        /\ SquaresUpTo(Len(call.args))
               < (result.value.standard_deviation + 1)
                     * (result.value.standard_deviation + 1)
        /\ ([i \in ArgIdx |-> Arg(i).standard_deviation] = <<3, 4>>
                => result.value.standard_deviation = 5)

C2_Witness ==
    /\ AllNormalCall
    /\ [i \in ArgIdx |-> Arg(i).standard_deviation] = <<3, 4>>
    /\ result.status = "return"
    /\ result.value.standard_deviation = 5

\* C3: convolve_distributions on a list of exactly one distribution returns
\* that very instance, whatever its variant and central value, and constructs
\* nothing.
C3_SingleInputIsReturned ==
    (Convolving /\ Len(call.args) = 1) =>
        /\ result.status = "return"
        /\ ~result.isnew
        /\ result.id = call.args[1]
        /\ result.value = Arg(1)
        /\ result.constructed = 0

C3_Witness ==
    /\ Convolving
    /\ Len(call.args) = 1
    /\ Arg(1).kind = "MultivariateNormal"
    /\ result.status = "return"
    /\ result.id = call.args[1]

\* the list without its Delta members
RECURSIVE WithoutDeltas(_, _)
WithoutDeltas(heap, args) ==
    IF args = <<>> THEN <<>>
    ELSE IF heap[Head(args)].kind = "Delta"
    THEN WithoutDeltas(heap, Tail(args))
    ELSE <<Head(args)>> \o WithoutDeltas(heap, Tail(args))

\* C4: Delta inputs contribute nothing: when the list S of the non-Delta
\* inputs is not empty and combines to a result, the whole list (S plus
\* Deltas at the same central value) combines to a result of the same
\* variant, central value and spread.
C4_DeltasContributeNothing ==
    (/\ Convolving
     /\ \A i \in ArgIdx : WellFormed(Arg(i))
     /\ \A i \in ArgIdx : ~Differs(Arg(i).central_value, Arg(1).central_value)
     /\ \E i \in ArgIdx : Arg(i).kind = "Delta"
     /\ WithoutDeltas(objs, call.args) # <<>>)
    => LET S == WithoutDeltas(objs, call.args)
       IN  \A others \in Enumerations(OthersSet(objs, S)) :
               convolve_distributions(objs, S, others).status = "return"
               => /\ result.status = "return"
                  /\ result.value = convolve_distributions(objs, S, others).value

\* C5: logpdf takes a single value or a sequence of values and returns one
\* log-density per value, in the shape of its argument, without raising.
C5_LogpdfKeepsShape ==
    call.op = "logpdf" =>
        /\ result.status = "return"
        /\ result.shape = call.args[2].shape
        /\ Len(result.vals) = Len(call.args[2].vals)

\* C6: get_random() of a well-formed univariate distribution returns a
\* scalar, and get_random(count) a sequence of exactly count values.
C6_GetRandomLength ==
    (call.op = "get_random" /\ WellFormed(objs[call.args[1]])) =>
        /\ result.status = "return"
        /\ call.args[2] = None => result.shape = "scalar"
        /\ call.args[2] # None =>
               result.shape = "array" /\ result.len = call.args[2][1]

\* the parameters of the last constructor call break a validation the
\* specification lists
InvalidParameters ==
    \/ call.op \in {"UniformDistribution", "NormalDistribution"}
           /\ call.args[2] < 0
    \/ call.op = "AsymmetricNormalDistribution"
           /\ (call.args[2] < 0 \/ call.args[3] < 0)
    \/ call.op = "GaussianUpperLimit"
           /\ (call.args[2] < 0 \/ call.args[2] > 1000)
    \/ call.op = "MultivariateNormalDistribution"
           /\ ~PositiveDefinite(call.args[1])
    \/ call.op = "NumericalDistribution"
           /\ \/ \E i \in 1..(Len(call.args[1]) - 1) :
                     call.args[1][i] >= call.args[1][i + 1]
              \/ call.args[3] # None
                     /\ (call.args[3][1] < call.args[1][1]
                         \/ call.args[3][1] > call.args[1][Len(call.args[1])])

\* C7: a constructor called with invalid parameters raises, and no object
\* comes of it.
C7_InvalidParametersRaise ==
    InvalidParameters => result.status = "raise"

\* C8: GaussianUpperLimit(limit, confidence_level) has central value 0 and
\* standard deviation limit / ppf(0.5 + confidence_level/2).
C8_UpperLimitSigma ==
    (call.op = "GaussianUpperLimit" /\ result.status = "return") =>
        /\ result.value.central_value.v = 0
        /\ result.value.standard_deviation
               = (call.args[1] * norm_ppf(call.args[2]).den)
                     \div norm_ppf(call.args[2]).num

WrongCentralValue ==
    /\ Convolving
    /\ Len(call.args) >= 2
    /\ \E i \in ArgIdx : Differs(Arg(i).central_value, Arg(1).central_value)

\* C9: convolve_distributions on two or more inputs of which one has another
\* central value than the first raises before anything is constructed;
\* _convolve_gaussians raises on a member that is not Normal and
\* _convolve_numerical on one that is not Numerical.
C9_MismatchAborts ==
    /\ WrongCentralValue =>
           result.status = "raise" /\ result.constructed = 0
    /\ (call.op = "_convolve_gaussians"
            /\ \E i \in ArgIdx : Arg(i).kind # "Normal") =>
           result.status = "raise" /\ result.constructed = 0
    /\ (call.op = "_convolve_numerical"
            /\ \E i \in ArgIdx : Arg(i).kind # "Numerical") =>
           result.status = "raise" /\ result.constructed = 0

C9_Witness ==
    /\ WrongCentralValue
    /\ Len(call.args) = 3
    /\ Arg(1).kind = "Normal"
    /\ call.args[2] = call.args[1]
    /\ Arg(3).kind = "Uniform"
    /\ result.status = "raise"
    /\ result.error = "AssertionError"

\* C10: the grouping of convolve_distributions keeps every occurrence: the
\* lists gaussians, deltas and others together have as many entries as the
\* input list, so an instance listed k times is grouped k times.
C10_GroupingKeepsMultiplicity ==
    (/\ Convolving
     /\ Len(call.args) >= 2
     /\ \A i \in ArgIdx : WellFormed(Arg(i))
     /\ result.status = "return") =>
        Len(groups.gaussians) + Len(groups.deltas) + Len(groups.others)
            = Len(call.args)

====
